---- MODULE Spec2Model ----
(***************************************************************************)
(* Model of the scrape-reviews edge function                               *)
(* (supabase/functions/scrape-reviews/index.ts): the request handler with  *)
(* its browser session, the pagination loop, the identifier derivation of  *)
(* scrapeSinglePage, the filter and bulk write, and the catch / finally    *)
(* blocks.  Each await of the handler is one step.  The review store is    *)
(* kept across requests, so that a second request can be run against it.   *)
(***************************************************************************)
EXTENDS Integers, Sequences, FiniteSets, TLC

\* ------------------------------------------------------------------ bounds

\* Number of requests served one after the other against the same store.
MaxRuns == 2

\* ------------------------------------------------------- program constants

MAX_PAGES == 5

\* --------------------------------------------------------------- strings
\* A string is a sequence of one-character strings; null / undefined is NULL.

NULL == <<"null">>

Str_JD == <<"J", " ", " ", "D">>
Str_jd == <<"j", "_", "d">>
Str_Al == <<"A", "l">>
Str_6 == <<"6">>
Str_7 == <<"7">>

\* JavaScript truthiness of a string | null value.
Truthy(s) == s # NULL /\ s # <<>>

IsSpace(c) == c \in {" ", "\t", "\n"}

LowerChar(c) ==
    CASE c = "J" -> "j"
      [] c = "D" -> "d"
      [] c = "A" -> "a"
      [] OTHER -> c

\* String.prototype.toLowerCase
toLowerCase(s) == [i \in 1..Len(s) |-> LowerChar(s[i])]

\* s.replace(/\s+/g, '_'): every maximal run of whitespace becomes one "_".
RECURSIVE replaceWs(_)
replaceWs(s) ==
    IF s = <<>> THEN <<>>
    ELSE IF IsSpace(Head(s))
         THEN IF Len(s) > 1 /\ IsSpace(s[2])
              THEN replaceWs(Tail(s))
              ELSE <<"_">> \o replaceWs(Tail(s))
         ELSE <<Head(s)>> \o replaceWs(Tail(s))

\* ---------------------------------------------------------------- reviews
\* A card is what the field extraction finds in one reviewCard element; only
\* the two fields the identifier is derived from are kept.

Card(n, d) == [reviewer_name |-> n, written_date |-> d]

cardA == Card(Str_JD, Str_6)
cardB == Card(Str_jd, Str_6)
cardC == Card(Str_Al, Str_7)
cardNoName == Card(NULL, Str_6)
cardNoDate == Card(Str_JD, <<>>)

\* The condition under which scrapeSinglePage derives unique_id.
HasIdFields_Or(c) == Truthy(c.reviewer_name) \/ Truthy(c.written_date)
HasIdFields(c) == Truthy(c.reviewer_name) /\ Truthy(c.written_date)

\* `${reviewer_name}_${written_date}`.replace(/\s+/g, '_').toLowerCase()
UniqueId(c) ==
    toLowerCase(replaceWs(c.reviewer_name \o <<"_">> \o c.written_date))

\* One Review as pushed by scrapeSinglePage at time `now`.
MakeReview(c, now) ==
    [reviewer_name |-> c.reviewer_name,
     written_date |-> c.written_date,
     unique_id |-> IF HasIdFields(c) THEN UniqueId(c) ELSE NULL,
     scraped_at |-> now]

\* The markup a page can show: the cards found in it, in document order.
PageContents ==
    {<<>>, <<cardA>>, <<cardNoName, cardB>>, <<cardC, cardNoDate>>,
     <<cardNoDate, cardNoName>>}

\* What one page fetch can meet: navigation throws ("navfail"), the content
\* wait times out ("waittimeout") or raises another error ("waiterror"), or the
\* markup is retrieved ("html").
Outcome(k, cs) == [kind |-> k, cards |-> cs]
WaitFailures == {"waittimeout", "waiterror"}
ScrapeOutcomes ==
    {Outcome(k, <<>>) : k \in WaitFailures}
        \cup {Outcome("html", cs) : cs \in PageContents}

\* Whether scrapeSinglePage lets the error of waitForSelector / page.content
\* escape to its caller: its catch block returns [] for every error.
scrapeSinglePageRaises_HardError(out) == out.kind = "waiterror"
scrapeSinglePageRaises(out) == FALSE

\* The Review[] scrapeSinglePage returns.
scrapeSinglePage(out, now) ==
    IF out.kind \in WaitFailures THEN <<>>
    ELSE [i \in 1..Len(out.cards) |-> MakeReview(out.cards[i], now)]

\* ------------------------------------------------------------ review store
\* The "reviews" table: a set of rows, at most one per unique_id.

HasRow(st, id) == \E x \in st : x.unique_id = id

\* INSERT ... ON CONFLICT (unique_id) DO NOTHING, row by row; data is what
\* .select() returns: the rows actually inserted.
RECURSIVE InsertIgnoring(_, _, _)
InsertIgnoring(st, batch, data) ==
    IF batch = <<>> THEN [rows |-> st, data |-> data]
    ELSE LET r == Head(batch) IN
         IF HasRow(st, r.unique_id)
         THEN InsertIgnoring(st, Tail(batch), data)
         ELSE InsertIgnoring(st \cup {r}, Tail(batch), Append(data, r))

\* The same write with ignoreDuplicates: false (merge on conflict).
RECURSIVE InsertMerging(_, _, _)
InsertMerging(st, batch, data) ==
    IF batch = <<>> THEN [rows |-> st, data |-> data]
    ELSE LET r == Head(batch) IN
         InsertMerging({x \in st : x.unique_id # r.unique_id} \cup {r},
                       Tail(batch), Append(data, r))

upsert_Merge(st, batch) == InsertMerging(st, batch, <<>>)

\* supabase.from("reviews").upsert(batch, {onConflict: "unique_id",
\* ignoreDuplicates: true}).select()
upsert(st, batch) == InsertIgnoring(st, batch, <<>>)

\* Rows a store can hold before the first request of the model.
InitStores == {{}, {MakeReview(cardB, 0)}}

\* ------------------------------------------------------------------ state

VARIABLES
    pc,                 \* position of the handler
    run,                \* number of the request being served (clock of scraped_at)
    store,              \* rows of the reviews table
    bbSession,          \* bb.sessions.create has returned a session
    playwrightBrowser,  \* chromium.connectOverCDP has returned a browser
    page,               \* context.pages()[0] has been taken
    allScrapedReviews,
    skip,
    pageNum,
    reviewsToUpsert,
    err,                \* message of the error thrown inside the try block
    response,           \* the Response the handler returns
    closeCount,         \* calls of playwrightBrowser.close() in this request
    fetches,            \* the page.goto calls of this request, in order
    pendingDelays,      \* politeness delays since the last page.goto
    upsertCalls,        \* calls of upsert in this request
    prev                \* what the previous request fetched and wrote

vars == <<pc, run, store, bbSession, playwrightBrowser, page, allScrapedReviews,
          skip, pageNum, reviewsToUpsert, err, response, closeCount, fetches,
          pendingDelays, upsertCalls, prev>>

NoResponse == [status |-> 0, body |-> [pending |-> TRUE]]
NoPrev == [valid |-> FALSE, log |-> <<>>, ids |-> <<>>, wrote |-> FALSE]

\* The (kind, cards) of every fetch: what the site showed to a request.
LogOf(fs) == [i \in 1..Len(fs) |-> Outcome(fs[i].kind, fs[i].cards)]

\* The unique_id column of a batch.
IdsOf(batch) == [i \in 1..Len(batch) |-> batch[i].unique_id]

Init ==
    /\ pc = "start"
    /\ run = 1
    /\ store \in InitStores
    /\ bbSession = FALSE
    /\ playwrightBrowser = FALSE
    /\ page = FALSE
    /\ allScrapedReviews = <<>>
    /\ skip = 0
    /\ pageNum = 0
    /\ reviewsToUpsert = <<>>
    /\ err = ""
    /\ response = NoResponse
    /\ closeCount = 0
    /\ fetches = <<>>
    /\ pendingDelays = 0
    /\ upsertCalls = 0
    /\ prev = NoPrev

\* -------------------------------------------------------------- responses

JsonError(msg) == [status |-> 500, body |-> [error |-> msg]]

\* err.message || "An unexpected error occurred."
CatchResponse(msg) ==
    JsonError(IF msg # "" THEN msg ELSE "An unexpected error occurred.")

PreflightResponse == [status |-> 200, body |-> [cors |-> TRUE]]

NoReviewsResponse ==
    [status |-> 200,
     body |-> [message |-> "No reviews found or scraping failed overall.",
               details |-> "No reviews were collected from TripAdvisor."]]

NoIdsResponse ==
    [status |-> 200,
     body |-> [message |-> "No reviews with valid unique identifiers to process."]]

CompletedResponse_NoCounts(scraped, batch, data) ==
    [status |-> 200,
     body |-> [message |-> "Scraping and Supabase processing completed."]]

CompletedResponse(scraped, batch, data) ==
    [status |-> 200,
     body |-> [message |-> "Scraping and Supabase processing completed.",
               scrapedCount |-> Len(scraped),
               processedForUpsertCount |-> Len(batch),
               supabaseResultCount |-> Len(data)]]

\* ---------------------------------------------------------------- actions

\* A throw inside the try block: control goes to the catch block.
Throw(msg) ==
    /\ err' = msg
    /\ pc' = "catch"

\* Lines 172-192: the preflight answer and the environment checks.
Start ==
    /\ pc = "start"
    /\ \E method \in {"OPTIONS", "POST"}, env \in {"ok", "no_supabase", "no_browserbase"} :
         IF method = "OPTIONS"
         THEN /\ response' = PreflightResponse
              /\ pc' = "done"
         ELSE IF env = "no_supabase"
         THEN /\ response' = JsonError("Supabase URL or Anon Key not provided.")
              /\ pc' = "done"
         ELSE IF env = "no_browserbase"
         THEN /\ response' = JsonError("Browserbase API Key or Project ID not provided.")
              /\ pc' = "done"
         ELSE /\ response' = response
              /\ pc' = "create"
    /\ UNCHANGED <<run, store, bbSession, playwrightBrowser, page,
                   allScrapedReviews, skip, pageNum, reviewsToUpsert, err,
                   closeCount, fetches, pendingDelays, upsertCalls, prev>>

\* Line 201: bb.sessions.create.
CreateSession ==
    /\ pc = "create"
    /\ \/ /\ bbSession' = TRUE
          /\ pc' = "connect"
          /\ err' = err
       \/ /\ bbSession' = bbSession
          /\ Throw("sessions.create failed")
    /\ UNCHANGED <<run, store, playwrightBrowser, page, allScrapedReviews, skip,
                   pageNum, reviewsToUpsert, response, closeCount, fetches,
                   pendingDelays, upsertCalls, prev>>

\* Line 204: chromium.connectOverCDP.
Connect ==
    /\ pc = "connect"
    /\ \/ /\ playwrightBrowser' = TRUE
          /\ pc' = "getpage"
          /\ err' = err
       \/ /\ playwrightBrowser' = playwrightBrowser
          /\ Throw("connectOverCDP failed")
    /\ UNCHANGED <<run, store, bbSession, page, allScrapedReviews, skip, pageNum,
                   reviewsToUpsert, response, closeCount, fetches, pendingDelays,
                   upsertCalls, prev>>

\* Lines 207-229: the default context's first page, the client, the counters.
GetPage ==
    /\ pc = "getpage"
    /\ \/ /\ page' = TRUE
          /\ allScrapedReviews' = <<>>
          /\ skip' = 0
          /\ pageNum' = 0
          /\ pc' = "loop"
          /\ err' = err
       \/ /\ UNCHANGED <<page, allScrapedReviews, skip, pageNum>>
          /\ Throw("Cannot read properties of undefined")
    /\ UNCHANGED <<run, store, bbSession, playwrightBrowser, reviewsToUpsert,
                   response, closeCount, fetches, pendingDelays,
                   upsertCalls, prev>>

\* What the site shows to fetch number i of this request: anything, unless the
\* request is served against the page contents the previous request met.
NavChoices(i) ==
    IF prev.valid /\ i <= Len(prev.log)
    THEN {prev.log[i].kind # "navfail"}
    ELSE BOOLEAN

ScrapeChoices(i) ==
    IF prev.valid /\ i <= Len(prev.log)
    THEN {prev.log[i]}
    ELSE ScrapeOutcomes

\* while (pageNum < MAX_PAGES)
LoopContinues_OffByOne(pn) == pn <= MAX_PAGES
LoopContinues(pn) == pn < MAX_PAGES

\* if (reviewsOnPage.length === 0 && pageNum > 0) break;
ShouldBreak(n, pn) == n = 0 /\ pn > 0

\* skip += reviewsActuallyScrapedThisPage
NextSkip_Stuck(sk, n) == sk
NextSkip_FixedPageSize(sk, n) == sk + 2
NextSkip(sk, n) == sk + n

\* if (pageNum < MAX_PAGES && reviewsActuallyScrapedThisPage > 0) delay
ShouldDelay_Always(pn, n) == TRUE
ShouldDelay(pn, n) == pn < MAX_PAGES /\ n > 0

\* page.goto throws: nothing catches it inside the loop.
GotoThrows_SkipPage ==
    /\ pageNum' = pageNum + 1
    /\ pc' = "loop"
    /\ err' = err
GotoThrows ==
    /\ pageNum' = pageNum
    /\ Throw("page.goto: navigation failed")

\* Lines 231-237: the loop test and page.goto(currentUrl).
Goto ==
    /\ pc = "loop"
    /\ LoopContinues(pageNum)
    /\ \E ok \in NavChoices(Len(fetches) + 1) :
         /\ fetches' = Append(fetches,
                [offset |-> skip, pageNum |-> pageNum, delays |-> pendingDelays,
                 kind |-> IF ok THEN "pending" ELSE "navfail",
                 cards |-> <<>>, n |-> 0])
         /\ IF ok
            THEN /\ pc' = "scrape"
                 /\ UNCHANGED <<err, pageNum>>
            ELSE GotoThrows
    /\ pendingDelays' = 0
    /\ UNCHANGED <<run, store, bbSession, playwrightBrowser, page,
                   allScrapedReviews, skip, reviewsToUpsert, response,
                   closeCount, upsertCalls, prev>>

\* Line 231, the loop test failing: the loop is left.
LoopExit ==
    /\ pc = "loop"
    /\ ~LoopContinues(pageNum)
    /\ pc' = "post"
    /\ UNCHANGED <<run, store, bbSession, playwrightBrowser, page,
                   allScrapedReviews, skip, pageNum, reviewsToUpsert, err,
                   response, closeCount, fetches, pendingDelays, upsertCalls, prev>>

\* Lines 239-258: scrapeSinglePage and the rest of the loop body, up to the
\* decision to pause.
Scrape ==
    /\ pc = "scrape"
    /\ \E out \in ScrapeChoices(Len(fetches)) :
         LET reviewsOnPage == scrapeSinglePage(out, run)
             n == Len(reviewsOnPage)
             last == Len(fetches)
         IN  /\ fetches' = [fetches EXCEPT ![last].kind = out.kind,
                                           ![last].cards = out.cards,
                                           ![last].n = n]
             /\ IF scrapeSinglePageRaises(out)
                THEN /\ Throw("waitForSelector / page.content failed")
                     /\ UNCHANGED <<allScrapedReviews, skip, pageNum>>
                ELSE IF ShouldBreak(n, pageNum)
                THEN /\ pc' = "post"
                     /\ UNCHANGED <<allScrapedReviews, skip, pageNum, err>>
                ELSE /\ allScrapedReviews' = allScrapedReviews \o reviewsOnPage
                     /\ skip' = NextSkip(skip, n)
                     /\ pageNum' = pageNum + 1
                     /\ pc' = IF ShouldDelay(pageNum + 1, n) THEN "delay" ELSE "loop"
                     /\ err' = err
    /\ UNCHANGED <<run, store, bbSession, playwrightBrowser, page,
                   reviewsToUpsert, response, closeCount, pendingDelays,
                   upsertCalls, prev>>

\* Line 259: the 500 ms pause.
Delay ==
    /\ pc = "delay"
    /\ pendingDelays' = pendingDelays + 1
    /\ pc' = "loop"
    /\ UNCHANGED <<run, store, bbSession, playwrightBrowser, page,
                   allScrapedReviews, skip, pageNum, reviewsToUpsert, err,
                   response, closeCount, fetches, upsertCalls, prev>>

\* allScrapedReviews.filter(r => r.unique_id)
RECURSIVE KeepWithId(_)
KeepWithId(reviews) ==
    IF reviews = <<>> THEN <<>>
    ELSE IF Truthy(Head(reviews).unique_id)
         THEN <<Head(reviews)>> \o KeepWithId(Tail(reviews))
         ELSE KeepWithId(Tail(reviews))

FilterForUpsert(reviews) == KeepWithId(reviews)

\* Lines 263-283: the two early answers, and the batch for the store.
Post ==
    /\ pc = "post"
    /\ IF Len(allScrapedReviews) = 0
       THEN /\ response' = NoReviewsResponse
            /\ pc' = "finally"
            /\ UNCHANGED reviewsToUpsert
       ELSE /\ reviewsToUpsert' = FilterForUpsert(allScrapedReviews)
            /\ IF Len(reviewsToUpsert') = 0
               THEN /\ response' = NoIdsResponse
                    /\ pc' = "finally"
               ELSE /\ response' = response
                    /\ pc' = "upsert"
    /\ UNCHANGED <<run, store, bbSession, playwrightBrowser, page,
                   allScrapedReviews, skip, pageNum, err, closeCount, fetches,
                   pendingDelays, upsertCalls, prev>>

\* Lines 284-303: the bulk write and the answer after it.
Upsert ==
    /\ pc = "upsert"
    /\ upsertCalls' = upsertCalls + 1
    /\ \/ LET res == upsert(store, reviewsToUpsert) IN
            /\ store' = res.rows
            /\ response' = CompletedResponse(allScrapedReviews, reviewsToUpsert, res.data)
            /\ pc' = "finally"
            /\ err' = err
       \/ /\ UNCHANGED <<store, response>>
          /\ Throw("upsert failed")
    /\ UNCHANGED <<run, bbSession, playwrightBrowser, page, allScrapedReviews,
                   skip, pageNum, reviewsToUpsert, closeCount, fetches,
                   pendingDelays, prev>>

\* Lines 305-310: the catch block.
Catch ==
    /\ pc = "catch"
    /\ response' = CatchResponse(err)
    /\ pc' = "finally"
    /\ UNCHANGED <<run, store, bbSession, playwrightBrowser, page,
                   allScrapedReviews, skip, pageNum, reviewsToUpsert, err,
                   closeCount, fetches, pendingDelays, upsertCalls, prev>>

\* Lines 311-317: the finally block; an error of close() is caught and logged.
Finally ==
    /\ pc = "finally"
    /\ closeCount' = IF playwrightBrowser THEN closeCount + 1 ELSE closeCount
    /\ pc' = "done"
    /\ UNCHANGED <<run, store, bbSession, playwrightBrowser, page,
                   allScrapedReviews, skip, pageNum, reviewsToUpsert, err,
                   response, fetches, pendingDelays, upsertCalls, prev>>

\* The next request arrives: a fresh invocation of the handler on the same
\* store.  It is served either against the page contents the request before
\* it met, or against a site that may have changed.
NextRequest ==
    /\ pc = "done"
    /\ run < MaxRuns
    /\ \E same \in BOOLEAN :
         /\ same => fetches # <<>>
         /\ prev' = IF same
                    THEN [valid |-> TRUE,
                          log |-> LogOf(fetches),
                          ids |-> IdsOf(reviewsToUpsert),
                          wrote |-> "supabaseResultCount" \in DOMAIN response.body]
                    ELSE NoPrev
    /\ run' = run + 1
    /\ pc' = "start"
    /\ bbSession' = FALSE
    /\ playwrightBrowser' = FALSE
    /\ page' = FALSE
    /\ allScrapedReviews' = <<>>
    /\ skip' = 0
    /\ pageNum' = 0
    /\ reviewsToUpsert' = <<>>
    /\ err' = ""
    /\ response' = NoResponse
    /\ closeCount' = 0
    /\ fetches' = <<>>
    /\ pendingDelays' = 0
    /\ upsertCalls' = 0
    /\ UNCHANGED store

\* One step of the handler serving a request.
Step ==
    \/ Start
    \/ CreateSession
    \/ Connect
    \/ GetPage
    \/ Goto
    \/ LoopExit
    \/ Scrape
    \/ Delay
    \/ Post
    \/ Upsert
    \/ Catch
    \/ Finally

Next == Step \/ NextRequest

Spec == Init /\ [][Next]_vars

\* One request, from its arrival to its response.  Every await of the handler
\* returns (or throws), so a request that has started keeps taking steps.
LiveSpec == Init /\ [][Step]_vars /\ WF_vars(Step)

\* ------------------------------------------------------------ properties

CountKeys == {"scrapedCount", "processedForUpsertCount", "supabaseResultCount"}

\* The handler has entered the try block: the request is a scrape run.
EnteredTry == bbSession \/ err # ""

\* The handler has left the try block for good.
AfterTry == pc \in {"finally", "done"} /\ EnteredTry

\* Fetch i has been scraped (its outcome is known and navigation succeeded).
Scraped(i) == fetches[i].kind \in WaitFailures \cup {"html"}

RECURSIVE SumN(_, _)
\* Records returned by the first k fetches.
SumN(fs, k) == IF k = 0 THEN 0 ELSE fs[k].n + SumN(fs, k - 1)

\* C1: once bb.sessions.create has succeeded, the session is released exactly
\* once before the handler returns, on every termination path.
C1_SessionReleasedExactlyOnce ==
    (pc = "done" /\ bbSession) => closeCount = 1

\* C2: a failure of page.goto aborts the run: it is the last fetch of the
\* run, no upsert call happens, and the response is a 500 with an error field.
C2_NavigationFailureAborts ==
    \A i \in 1..Len(fetches) :
        fetches[i].kind = "navfail" =>
            /\ i = Len(fetches)
            /\ upsertCalls = 0
            /\ reviewsToUpsert = <<>>
            /\ pc \in {"catch", "finally", "done"}
            /\ AfterTry => /\ response.status = 500
                           /\ "error" \in DOMAIN response.body

C2_Witness ==
    /\ pc = "done"
    /\ Len(fetches) >= 2
    /\ fetches[Len(fetches)].kind = "navfail"
    /\ \E i \in 1..Len(allScrapedReviews) : Truthy(allScrapedReviews[i].unique_id)
    /\ response.status = 500

\* C3 as stated: a content-wait step raising a hard error ends the run with
\* a 500 response, after the browser has been closed.
C3_WaitErrorIsFatal ==
    (pc = "done" /\ \E i \in 1..Len(fetches) : fetches[i].kind = "waiterror")
        => (response.status = 500 /\ closeCount = 1)

\* C3 amended: a content-wait step raising an error, hard or timeout alike,
\* is absorbed as an empty page: it returns no record, throws nothing to the
\* handler, and then the loop goes on (first page) or ends normally (later
\* page); the browser is closed before the handler returns.
C3_WaitErrorIsEmptyPage ==
    \A i \in 1..Len(fetches) :
        fetches[i].kind \in WaitFailures =>
            /\ fetches[i].n = 0
            /\ err # "waitForSelector / page.content failed"
            /\ i = 1 => pageNum >= 1
            /\ i > 1 => (i = Len(fetches) /\ pc \in {"post", "upsert", "catch", "finally", "done"})
            /\ pc = "done" => closeCount = 1
            /\ (AfterTry /\ err = "") => response.status = 200

C3_Witness ==
    /\ pc = "done"
    /\ response.status = 200
    /\ "scrapedCount" \in DOMAIN response.body
    /\ \E i \in 1..Len(fetches) : i > 1 /\ fetches[i].kind = "waiterror"
    /\ fetches[1].kind = "waittimeout"

RECURSIVE NameAndDate(_)
\* The subsequence of the reviews whose name and written date are non-empty.
NameAndDate(reviews) ==
    IF reviews = <<>> THEN <<>>
    ELSE IF Truthy(Head(reviews).reviewer_name) /\ Truthy(Head(reviews).written_date)
         THEN <<Head(reviews)>> \o NameAndDate(Tail(reviews))
         ELSE NameAndDate(Tail(reviews))

\* C4: the batch passed to upsert is exactly the subsequence, in accumulation
\* order, of the accumulated records with reviewer name and written date both
\* non-empty; every card of a page is in the page result, with or without an
\* identifier; the excluded records number scrapedCount minus
\* processedForUpsertCount.
C4_BatchIsIdentifiedSubsequence ==
    /\ \A i \in 1..Len(fetches) :
           fetches[i].kind = "html" => fetches[i].n = Len(fetches[i].cards)
    /\ (pc = "upsert" \/ upsertCalls > 0) =>
           /\ reviewsToUpsert = NameAndDate(allScrapedReviews)
           /\ Len(allScrapedReviews) = SumN(fetches, Len(fetches))
    /\ "scrapedCount" \in DOMAIN response.body =>
           /\ response.body.scrapedCount = Len(allScrapedReviews)
           /\ response.body.processedForUpsertCount = Len(NameAndDate(allScrapedReviews))
           /\ response.body.scrapedCount - response.body.processedForUpsertCount
                = Cardinality({i \in 1..Len(allScrapedReviews) :
                        ~Truthy(allScrapedReviews[i].reviewer_name)
                        \/ ~Truthy(allScrapedReviews[i].written_date)})

C4_Witness ==
    /\ pc = "done"
    /\ upsertCalls = 1
    /\ "scrapedCount" \in DOMAIN response.body
    /\ response.body.scrapedCount - response.body.processedForUpsertCount >= 2
    /\ response.body.processedForUpsertCount >= 2

\* Loop iterations that ran to their end: the page was scraped and the loop
\* was not left by the break.
CompletedIterations ==
    Cardinality({i \in 1..Len(fetches) : Scraped(i) /\ ~(fetches[i].n = 0 /\ i > 1)})

\* C5: whatever the pages return, a run fetches at most MAX_PAGES pages, the
\* page counter is the number of completed iterations (one more at each), and
\* a request that has started reaches its final response.
C5_LoopBoundedAndRunEnds ==
    /\ [](/\ Len(fetches) <= MAX_PAGES
          /\ pageNum = CompletedIterations
          /\ \A i \in 1..Len(fetches) : fetches[i].pageNum = i - 1)
    /\ ((pc = "start") ~> (pc = "done"))

C5_Witness ==
    /\ pc = "done"
    /\ Len(fetches) = MAX_PAGES
    /\ \A i \in 1..Len(fetches) : fetches[i].kind = "html"
    /\ fetches[1].n = 0
    /\ fetches[MAX_PAGES].n > 0
    /\ response.status = 200

\* C6 as stated: every response of a run that did not fail fatally reports
\* the three counts, and every fatally failed run answers 500 with an error.
C6_EveryOkResponseReportsCounts ==
    (pc = "done" /\ EnteredTry) =>
        IF err = ""
        THEN CountKeys \subseteq DOMAIN response.body
        ELSE response.status = 500 /\ "error" \in DOMAIN response.body

\* C6 amended: the response after a successful store write reports the three
\* counts; the two early 200 responses (no record collected, no record with
\* an identifier) carry a message and no count; every fatally failed run
\* answers 500 with an error message.
C6_ResponseShape ==
    AfterTry =>
        /\ err # "" =>
              /\ response.status = 500
              /\ DOMAIN response.body = {"error"}
              /\ response.body.error = err
        /\ (err = "" /\ upsertCalls = 1) =>
              /\ response.status = 200
              /\ CountKeys \subseteq DOMAIN response.body
              /\ response.body.scrapedCount = Len(allScrapedReviews)
              /\ response.body.processedForUpsertCount = Len(reviewsToUpsert)
              /\ response.body.supabaseResultCount
                   = Cardinality({r \in store : r.scraped_at = run})
        /\ (err = "" /\ upsertCalls = 0) =>
              /\ response.status = 200
              /\ "message" \in DOMAIN response.body
              /\ CountKeys \cap DOMAIN response.body = {}
              /\ reviewsToUpsert = <<>>

C6_Witness ==
    /\ pc = "done"
    /\ response = NoIdsResponse
    /\ Len(allScrapedReviews) >= 2

\* C7: a run writes at most once, after the loop; the write never changes or
\* removes a row the store already holds and keeps one row per identifier;
\* and a run against the page contents of the run before it, which completed
\* its write, submits a batch with the same identifiers and has 0 rows
\* accepted.
C7_SingleWriteFirstWins ==
    /\ [](/\ upsertCalls <= 1
          /\ upsertCalls = 1 => pc \in {"catch", "finally", "done"}
          /\ \A x, y \in store : x.unique_id = y.unique_id => x = y
          /\ (prev.valid /\ prev.wrote /\ upsertCalls = 1
                /\ LogOf(fetches) = prev.log) =>
                 /\ IdsOf(reviewsToUpsert) = prev.ids
                 /\ "supabaseResultCount" \in DOMAIN response.body =>
                        response.body.supabaseResultCount = 0)
    /\ [][store \subseteq store']_vars

C7_Witness ==
    /\ pc = "done"
    /\ run = 2
    /\ prev.valid
    /\ prev.wrote
    /\ LogOf(fetches) = prev.log
    /\ Len(prev.ids) >= 3
    /\ "supabaseResultCount" \in DOMAIN response.body
    /\ response.body.supabaseResultCount = 0
    /\ \E r \in store : r.scraped_at = 0

\* C8 as stated: the offset of each fetch is strictly greater than the offset
\* of every earlier fetch of the run.
C8_OffsetsStrictlyIncrease ==
    \A i, j \in 1..Len(fetches) :
        i < j => fetches[i].offset < fetches[j].offset

\* C8 amended: offsets never decrease, and the offset of a fetch is strictly
\* greater than that of every earlier fetch except in one case: after a first
\* page that returned no record, the second fetch uses offset 0 again.
C8_OffsetsIncreaseAfterFirstRecords ==
    \A i, j \in 1..Len(fetches) :
        i < j =>
            /\ fetches[i].offset <= fetches[j].offset
            /\ fetches[i].offset = fetches[j].offset =>
                  (i = 1 /\ j = 2 /\ fetches[1].n = 0 /\ fetches[j].offset = 0)

C8_Witness ==
    /\ Len(fetches) >= 3
    /\ fetches[1].n = 0
    /\ fetches[2].offset = 0
    /\ fetches[3].offset > 0

\* C9: at every page fetch the offset is the number of records accumulated so
\* far (each processed page adds exactly what it returned), and a non-first
\* page returning no record ends the loop with offset and accumulator as they
\* were.
C9_OffsetIsRecordsSoFar ==
    /\ \A i \in 1..Len(fetches) :
          /\ fetches[i].offset = SumN(fetches, i - 1)
          /\ (Scraped(i) /\ fetches[i].n = 0 /\ i > 1) =>
                /\ i = Len(fetches)
                /\ pc \notin {"loop", "scrape", "delay"}
                /\ skip = fetches[i].offset
                /\ Len(allScrapedReviews) = fetches[i].offset
    /\ pc \in {"loop", "delay", "post"} => skip = Len(allScrapedReviews)

C9_Witness ==
    /\ pc = "done"
    /\ Len(fetches) >= 3
    /\ Scraped(Len(fetches))
    /\ fetches[Len(fetches)].n = 0
    /\ fetches[Len(fetches)].offset >= 3

\* C10 as stated: every fetch but the first of a run is preceded by exactly
\* one delay since the fetch before it, and no delay follows the last fetch.
C10_DelayBeforeEveryLaterFetch ==
    /\ \A i \in 1..Len(fetches) :
          fetches[i].delays = IF i = 1 THEN 0 ELSE 1
    /\ pc \in {"post", "upsert", "catch", "finally", "done"} => pendingDelays = 0

\* C10 amended: a fetch that follows a page which returned at least one record
\* is preceded by exactly one delay; the fetch that follows a first page with
\* no record is preceded by none; no delay follows the last fetch of the run.
C10_DelayAfterNonEmptyPage ==
    /\ \A i \in 1..Len(fetches) :
          fetches[i].delays =
              IF i > 1 /\ fetches[i - 1].n > 0 THEN 1 ELSE 0
    /\ pendingDelays <= 1
    /\ pc \in {"post", "upsert", "catch", "finally", "done"} => pendingDelays = 0

C10_Witness ==
    /\ pc = "done"
    /\ Len(fetches) = MAX_PAGES
    /\ fetches[1].n = 0
    /\ fetches[2].delays = 0
    /\ fetches[3].delays = 1
    /\ fetches[MAX_PAGES].n > 0

====
